---------------------------- MODULE Spec2Model ----------------------------
(***************************************************************************)
(* Model of the CAV road-readiness engine of src/main.py: the segment      *)
(* store ROAD_SEGMENTS, the nearest-segment lookup, the corridor match,    *)
(* the route aggregation with its recommendations, the display sampler     *)
(* and the HTTP handlers built on them.                                    *)
(*                                                                         *)
(* Number representations                                                  *)
(*   - coordinates are integers counting half degrees (51.5 deg = 103);    *)
(*   - lengths are integers in metres (0.5 km = 500);                      *)
(*   - readiness scores are read from the data file as decimals with one   *)
(*     digit (tenths, 70.1 = 701), lane-marking ratios with two digits     *)
(*     (hundredths); their arithmetic is IEEE-754 binary64, modelled       *)
(*     bit-exactly below (Dbl): sums and quotients are rounded to 53       *)
(*     significant bits, ties to even, as CPython's float does;            *)
(*   - the degree-space geometry of the corridor is exact rational         *)
(*     arithmetic on squared distances;                                    *)
(*   - the trigonometry of the haversine formula is fixed point.           *)
(***************************************************************************)
EXTENDS Integers, Sequences, FiniteSets

(***************************************************************************)
(* IEEE-754 binary64 on the values the engine averages.  A Dbl is the      *)
(* natural number N = value * 2^64 held in four limbs of 24 bits, least    *)
(* significant first.  Every value the model forms is 0 or lies in         *)
(* [2^-11, 2^13), so N has between 54 and 77 bits and the bits a rounding  *)
(* drops all lie in the lowest limb.                                       *)
(***************************************************************************)
Pow2Table ==
    <<1, 2, 4, 8, 16, 32, 64, 128, 256, 512, 1024, 2048, 4096, 8192, 16384,
      32768, 65536, 131072, 262144, 524288, 1048576, 2097152, 4194304,
      8388608, 16777216, 33554432, 67108864, 134217728, 268435456,
      536870912, 1073741824>>
Pow2(k) == Pow2Table[k + 1]

Limb == Pow2(24)

DblZero == <<0, 0, 0, 0>>

\* The integer k (0 <= k < 2^15) as a Dbl: k * 2^64 = (k * 2^16) * Limb^2.
DblFromInt(k) == <<0, 0, (k * 65536) % Limb, (k * 65536) \div Limb>>

\* Exact sum of two limb vectors.
RawAdd(a, b) ==
    LET s1 == a[1] + b[1]
        s2 == a[2] + b[2] + (s1 \div Limb)
        s3 == a[3] + b[3] + (s2 \div Limb)
        s4 == a[4] + b[4] + (s3 \div Limb)
    IN  <<s1 % Limb, s2 % Limb, s3 % Limb, s4>>

\* Exact quotient and remainder of a limb vector by a small integer
\* (1 <= n <= 127), by long division from the most significant limb.
RawDiv(a, n) ==
    LET q4 == a[4] \div n
        r4 == a[4] % n
        q3 == (r4 * Limb + a[3]) \div n
        r3 == (r4 * Limb + a[3]) % n
        q2 == (r3 * Limb + a[2]) \div n
        r2 == (r3 * Limb + a[2]) % n
        q1 == (r2 * Limb + a[1]) \div n
        r1 == (r2 * Limb + a[1]) % n
    IN  [q |-> <<q1, q2, q3, q4>>, rem |-> r1]

\* Exact product of a limb vector by a small integer (1 <= n <= 127).
RawMul(a, n) ==
    LET p1 == a[1] * n
        p2 == a[2] * n + (p1 \div Limb)
        p3 == a[3] * n + (p2 \div Limb)
        p4 == a[4] * n + (p3 \div Limb)
    IN  <<p1 % Limb, p2 % Limb, p3 % Limb, p4>>

\* Number of significant bits of x (0 <= x < 2^31).
BitLen(x) == Cardinality({k \in 0..30 : Pow2(k) <= x})

RawBitLen(a) ==
    IF a[4] # 0 THEN 72 + BitLen(a[4])
    ELSE IF a[3] # 0 THEN 48 + BitLen(a[3])
    ELSE IF a[2] # 0 THEN 24 + BitLen(a[2])
    ELSE BitLen(a[1])

\* Round an exact value to 53 significant bits, to nearest, ties to even.
\* sticky says that the exact value has further non-zero bits below the
\* resolution 2^-64 of the vector (a non-zero remainder of a division).
Round53(a, sticky) ==
    LET d == RawBitLen(a) - 53
    IN  IF d <= 0 THEN a
        ELSE LET p     == Pow2(d)
                 r     == a[1] % p
                 half  == p \div 2
                 lsb   == IF d < 24 THEN (a[1] \div p) % 2 ELSE a[2] % 2
                 trunc == <<a[1] - r, a[2], a[3], a[4]>>
                 ulp   == IF d < 24 THEN <<p, 0, 0, 0>> ELSE <<0, 1, 0, 0>>
                 up    == \/ r > half
                          \/ r = half /\ (sticky \/ lsb = 1)
             IN  IF up THEN RawAdd(trunc, ulp) ELSE trunc

\* x + y, x / n and x * n of Python floats (n a small integer).
DblAdd(x, y) == Round53(RawAdd(x, y), FALSE)
DblMulInt(x, n) == Round53(RawMul(x, n), FALSE)
DblDivInt(x, n) == LET qr == RawDiv(x, n) IN Round53(qr.q, qr.rem # 0)

\* x < y and x >= y of Python floats.
DblLess(x, y) ==
    \/ x[4] < y[4]
    \/ x[4] = y[4] /\ x[3] < y[3]
    \/ x[4] = y[4] /\ x[3] = y[3] /\ x[2] < y[2]
    \/ x[4] = y[4] /\ x[3] = y[3] /\ x[2] = y[2] /\ x[1] < y[1]
DblGeq(x, y) == ~DblLess(x, y)

\* The float a JSON decimal parses to: the binary64 nearest to t/10 and to
\* h/100 (correctly rounded, as float() of the literal is).
DblOfTenths(t) == DblDivInt(DblFromInt(t), 10)
DblOfHundredths(h) == DblDivInt(DblFromInt(h), 100)

\* int(x) of a non-negative Python float: its integer part.
DblFloor(x) == x[4] * 256 + (x[3] \div 65536)

\* round(x, 1) of a Python float, as a count of tenths: the decimal with
\* one digit nearest to the exact value of x, ties to even.
RoundTenths(x) ==
    LET m    == RawMul(x, 10)
        int  == m[4] * 256 + (m[3] \div 65536)
        f3   == m[3] % 65536
        up   == \/ f3 > 32768
                \/ f3 = 32768 /\ (m[2] # 0 \/ m[1] # 0 \/ int % 2 = 1)
    IN  IF up THEN int + 1 ELSE int

(***************************************************************************)
(* Products, quotients and differences of two Python floats, for the       *)
(* degree-space geometry evaluated in binary64.  A signed float is a       *)
(* record [neg, mag] of a sign and a Dbl; zero has neg = FALSE.            *)
(***************************************************************************)
\* Exact difference a - b of two limb vectors, a >= b.
RawSub(a, b) ==
    LET d1 == a[1] - b[1]
        c1 == IF d1 < 0 THEN 1 ELSE 0
        d2 == a[2] - b[2] - c1
        c2 == IF d2 < 0 THEN 1 ELSE 0
        d3 == a[3] - b[3] - c2
        c3 == IF d3 < 0 THEN 1 ELSE 0
    IN  <<d1 + c1 * Limb, d2 + c2 * Limb, d3 + c3 * Limb, a[4] - b[4] - c3>>

\* A limb vector as eight digits of 12 bits, least significant first.
Digits12(a) ==
    [k \in 1..8 |-> IF k % 2 = 1 THEN a[(k + 1) \div 2] % 4096
                    ELSE a[k \div 2] \div 4096]

\* The digit product a[i] * b[j] with (i - 1) + (j - 1) = k, if there is one.
DigitProduct(a, b, k, i) ==
    IF k - i + 2 \in 1..8 THEN a[i] * b[k - i + 2] ELSE 0

\* Column k of the long multiplication (k from 0), below 2^27.
ColumnSum(a, b, k) ==
    ((DigitProduct(a, b, k, 1) + DigitProduct(a, b, k, 2))
        + (DigitProduct(a, b, k, 3) + DigitProduct(a, b, k, 4)))
    + ((DigitProduct(a, b, k, 5) + DigitProduct(a, b, k, 6))
        + (DigitProduct(a, b, k, 7) + DigitProduct(a, b, k, 8)))

\* The sixteen columns of the long multiplication of two digit vectors.
ProductColumns(a, b) == [k \in 0..15 |-> ColumnSum(a, b, k)]

\* The part of column k above its 12 low bits is below 2^15; it is spread
\* over the two digits above, so that a digit sum stays below 2^14.
ColumnDigits(col) ==
    [k \in 0..15 |->
        (col[k] % 4096)
        + (IF k >= 1 THEN (col[k - 1] \div 4096) % 4096 ELSE 0)
        + (IF k >= 2 THEN col[k - 2] \div 16777216 ELSE 0)]

\* Two digit sums make one limb sum, below 2^26.
LimbSums(digit) ==
    [j \in 1..8 |-> digit[2 * j - 2] + digit[2 * j - 1] * 4096]

\* The carries taken from limb to limb: eight limbs of 24 bits.
Carried(sum) ==
    LET w1 == sum[1]
        w2 == sum[2] + (w1 \div Limb)
        w3 == sum[3] + (w2 \div Limb)
        w4 == sum[4] + (w3 \div Limb)
        w5 == sum[5] + (w4 \div Limb)
        w6 == sum[6] + (w5 \div Limb)
        w7 == sum[7] + (w6 \div Limb)
        w8 == sum[8] + (w7 \div Limb)
    IN  <<w1 % Limb, w2 % Limb, w3 % Limb, w4 % Limb, w5 % Limb, w6 % Limb,
          w7 % Limb, w8>>

\* The exact product of two limb vectors as eight limbs of 24 bits.
ProductLimbs(x, y) ==
    Carried(LimbSums(ColumnDigits(ProductColumns(Digits12(x), Digits12(y)))))

\* The product p / 2^64 rounded; the bits below 2^-64 are the sticky bit
\* of the rounding.
RoundProduct(p) ==
    Round53(<<(p[3] \div 65536) + (p[4] % 65536) * 256,
              (p[4] \div 65536) + (p[5] % 65536) * 256,
              (p[5] \div 65536) + (p[6] % 65536) * 256,
              (p[6] \div 65536) + p[7] * 256>>,
            p[1] # 0 \/ p[2] # 0 \/ p[3] % 65536 # 0)

\* x * y of two non-negative floats.
DblMul(x, y) == RoundProduct(ProductLimbs(x, y))

\* Hexadecimal digit i (from 0) of a limb vector.
NibbleOf(a, i) == (a[(i \div 6) + 1] \div Pow2(4 * (i % 6))) % 16

\* Sixteen times a limb vector, plus a digit.
Shift4(a, digit) == RawAdd(RawMul(a, 16), <<digit, 0, 0, 0>>)

\* Long division of N(x) * 2^64 by N(y) in base 16: one step takes digit i
\* of the dividend into the remainder and gives one digit of the quotient,
\* the number of the multiples y, 2y, ..., 15y that the remainder reaches.
\* The digits -1 to -16 are the 64 zero bits below N(x); after the last
\* digit a step changes nothing.
DivStep(x, y, s) ==
    IF s.i < -16 THEN s
    ELSE LET r == Shift4(s.rem, IF s.i >= 0 THEN NibbleOf(x, s.i) ELSE 0)
             d == Cardinality({k \in 1..15 : DblGeq(r, RawMul(y, k))})
         IN  [i |-> s.i - 1, q |-> Shift4(s.q, d),
              rem |-> IF d = 0 THEN r ELSE RawSub(r, RawMul(y, d))]

DivStep5(x, y, s) ==
    DivStep(x, y, DivStep(x, y, DivStep(x, y, DivStep(x, y,
        DivStep(x, y, s)))))

\* The 40 digits of the dividend, from digit 23 of N(x) down.
RECURSIVE DivDigits(_, _, _)
DivDigits(x, y, s) ==
    IF s.i < -16 THEN s ELSE DivDigits(x, y, DivStep5(x, y, s))

\* x / y of two non-negative floats, y # 0.
DblDiv(x, y) ==
    LET qr == DivDigits(x, y, [i |-> 23, q |-> DblZero, rem |-> DblZero])
    IN  Round53(qr.q, qr.rem # DblZero)

Flt(neg, mag) == [neg |-> neg /\ mag # DblZero, mag |-> mag]

\* x - y, x + y, x * y and x / y of two signed floats.
FltSub(x, y) ==
    IF x.neg # y.neg THEN Flt(x.neg, DblAdd(x.mag, y.mag))
    ELSE IF DblGeq(x.mag, y.mag)
    THEN Flt(x.neg, Round53(RawSub(x.mag, y.mag), FALSE))
    ELSE Flt(~x.neg, Round53(RawSub(y.mag, x.mag), FALSE))
FltAdd(x, y) == FltSub(x, Flt(~y.neg, y.mag))
FltMul(x, y) ==
    IF x.mag = DblZero \/ y.mag = DblZero THEN Flt(FALSE, DblZero)
    ELSE Flt(x.neg # y.neg, DblMul(x.mag, y.mag))
FltDiv(x, y) ==
    IF y.mag # DblZero /\ x.mag = DblZero THEN Flt(FALSE, DblZero)
    ELSE Flt(x.neg # y.neg, DblDiv(x.mag, y.mag))


(***************************************************************************)
(* Fixed-point trigonometry for haversine_distance.  Angles are integers   *)
(* in micro-radians; Sin and Asin return millionths, Cos ten-thousandths.  *)
(* Sin and Asin are the Taylor series about 0 and are used on arguments    *)
(* below 46340 micro-radians (2.6 degrees) only; like the C library's,     *)
(* Sin is odd: Sin(-x) = -Sin(x).                                          *)
(***************************************************************************)
TruncDiv(a, b) == IF a >= 0 THEN a \div b ELSE -((-a) \div b)

Abs(x) == IF x < 0 THEN -x ELSE x

\* math.radians of a count of half degrees: h * pi / 360.
Radians(h) == TruncDiv(h * 872665, 100)

Sin(x) ==
    LET ax == Abs(x)
        x2 == (ax * ax) \div 1000000
        x3 == (x2 * ax) \div 1000000
        x5 == (x3 * x2) \div 1000000
        v  == ax - (x3 \div 6) + (x5 \div 120)
    IN  IF x >= 0 THEN v ELSE -v

Cos(x) ==
    LET y  == Abs(x) \div 100
        y2 == (y * y) \div 10000
        y4 == (y2 * y2) \div 10000
        y6 == (y4 * y2) \div 10000
        y8 == (y4 * y4) \div 10000
    IN  10000 - (y2 \div 2) + (y4 \div 24) - (y6 \div 720) + (y8 \div 40320)

Asin(y) ==
    LET y2 == (y * y) \div 1000000
        y3 == (y2 * y) \div 1000000
    IN  y + (y3 \div 6)

\* math.sqrt: the largest r in lo..hi with r * r <= n.
RECURSIVE SqrtSearch(_, _, _)
SqrtSearch(n, lo, hi) ==
    IF lo >= hi THEN lo
    ELSE LET mid == (lo + hi + 1) \div 2
         IN  IF mid * mid <= n THEN SqrtSearch(n, mid, hi)
             ELSE SqrtSearch(n, lo, mid - 1)

Sqrt(n) == SqrtSearch(n, 0, 46340)

\* Earth radius in km.
R == 6371

\* Mutant: the cosine of the first latitude is taken twice.
haversine_distance_first_latitude(lat1, lon1, lat2, lon2) ==
    LET lat1_rad  == Radians(lat1)
        delta_lat == Radians(lat2 - lat1)
        delta_lon == Radians(lon2 - lon1)
        sin_lat   == Sin(TruncDiv(delta_lat, 2))
        sin_lon   == Sin(TruncDiv(delta_lon, 2))
        a == sin_lat * sin_lat
             + ((Cos(lat1_rad) * Cos(lat1_rad)) \div 10000)
               * ((sin_lon * sin_lon) \div 10000)
        c == 2 * Asin(Sqrt(a))
    IN  (R * c) \div 1000

\* Distance between two coordinates (half degrees), in metres.
haversine_distance(lat1, lon1, lat2, lon2) ==
    LET lat1_rad  == Radians(lat1)
        lat2_rad  == Radians(lat2)
        delta_lat == Radians(lat2 - lat1)
        delta_lon == Radians(lon2 - lon1)
        sin_lat   == Sin(TruncDiv(delta_lat, 2))
        sin_lon   == Sin(TruncDiv(delta_lon, 2))
        a == sin_lat * sin_lat
             + ((Cos(lat1_rad) * Cos(lat2_rad)) \div 10000)
               * ((sin_lon * sin_lon) \div 10000)
        c == 2 * Asin(Sqrt(a))
    IN  (R * c) \div 1000

(***************************************************************************)
(* Degree-space distance from the point (px, py) to the segment from       *)
(* (x1, y1) to (x2, y2), all in half degrees.  The model computes with     *)
(* exact fractions: t and the closest point have the denominator           *)
(* dx^2 + dy^2, and the result is the SQUARE of the distance as the        *)
(* fraction num / den of half degrees squared (the final math.sqrt is      *)
(* applied by the comparisons of the callers, which compare squares).      *)
(***************************************************************************)
Max(a, b) == IF a >= b THEN a ELSE b
Min(a, b) == IF a <= b THEN a ELSE b

point_to_line_distance(px, py, x1, y1, x2, y2) ==
    LET dx == x2 - x1
        dy == y2 - y1
    IN  IF dx = 0 /\ dy = 0
        THEN [num |-> (px - x1) * (px - x1) + (py - y1) * (py - y1), den |-> 1]
        ELSE LET len2 == dx * dx + dy * dy
                 \* t = t_num / len2, clamped to [0, 1]
                 t_num == Max(0, Min(len2, (px - x1) * dx + (py - y1) * dy))
                 \* closest point, times len2
                 closest_x == x1 * len2 + t_num * dx
                 closest_y == y1 * len2 + t_num * dy
                 ex == px * len2 - closest_x
                 ey == py * len2 - closest_y
             IN  [num |-> ex * ex + ey * ey, den |-> len2 * len2]

(***************************************************************************)
(* point_to_line_distance as CPython evaluates it, in binary64, on points  *)
(* that lie on one parallel or on one meridian.  The arguments are floats  *)
(* and so is the result, in degrees.  math.sqrt(u**2 + v**2) with one of   *)
(* u and v equal to zero is the magnitude of the other: the square root of *)
(* the rounded square of a binary float is that float.                     *)
(***************************************************************************)
FltZero == [neg |-> FALSE, mag |-> DblZero]
FltOne == [neg |-> FALSE, mag |-> DblFromInt(1)]

\* math.sqrt(u**2 + v**2), for u = 0 or v = 0.
sqrt_of_squares(u, v) == IF v.mag = DblZero THEN u.mag ELSE v.mag

\* max(0, min(1, t))
clamp_unit(t) ==
    IF t.neg \/ t.mag = DblZero THEN FltZero
    ELSE IF DblGeq(t.mag, FltOne.mag) THEN FltOne
    ELSE t

\* The lines 112 to 119, from the projection parameter t on: the distance
\* to the closest point (x1 + t * dx, y1 + t * dy).
distance_to_closest(px, py, x1, y1, dx, dy, t) ==
    sqrt_of_squares(FltSub(px, FltAdd(x1, FltMul(t, dx))),
                    FltSub(py, FltAdd(y1, FltMul(t, dy))))

\* The lines 107 to 119, from the vector (dx, dy) on.
distance_along(px, py, x1, y1, dx, dy) ==
    IF dx = FltZero /\ dy = FltZero
    THEN sqrt_of_squares(FltSub(px, x1), FltSub(py, y1))
    ELSE distance_to_closest(
             px, py, x1, y1, dx, dy,
             clamp_unit(FltDiv(FltAdd(FltMul(FltSub(px, x1), dx),
                                      FltMul(FltSub(py, y1), dy)),
                               FltAdd(FltMul(dx, dx), FltMul(dy, dy)))))

point_to_line_distance_binary64(px, py, x1, y1, x2, y2) ==
    distance_along(px, py, x1, y1, FltSub(x2, x1), FltSub(y2, y1))


(***************************************************************************)
(* Segments.  A segment is one record of mock_cav_readiness_data.json as   *)
(* mock_data_generator.py writes it.  readiness_score is its decimal in    *)
(* tenths, the infrastructure ratios and weather_impact in hundredths.     *)
(***************************************************************************)
Segment(lat, lon, score, risk, color, lane, features) ==
    [segment_id |-> 0, latitude |-> lat, longitude |-> lon,
     readiness_score |-> score, risk_level |-> risk, risk_color |-> color,
     detected_features |-> features,
     infrastructure_quality |->
         [lane_markings |-> lane, signage_visibility |-> 80,
          surface_condition |-> 70],
     weather_impact |-> 10, timestamp |-> "2024-01-01T00:00:00",
     route_name |-> "M1"]

\* The response model RoadSegment(**segment): the declared fields, without
\* the extra key route_name of the data file.
RoadSegment(s) ==
    [segment_id |-> s.segment_id, latitude |-> s.latitude,
     longitude |-> s.longitude, readiness_score |-> s.readiness_score,
     risk_level |-> s.risk_level, risk_color |-> s.risk_color,
     detected_features |-> s.detected_features,
     infrastructure_quality |-> s.infrastructure_quality,
     weather_impact |-> s.weather_impact, timestamp |-> s.timestamp]

\* None of Optional[Dict].
None == [segment_id |-> 0]

\* generate_segment_data from the final score on (line 112): the level is
\* taken from final_score, the stored score is round(final_score, 1).  The
\* position, the lane markings and the features do not depend on the score.
generate_segment_data(final_score) ==
    LET risk == IF DblGeq(final_score, DblFromInt(75))
                THEN [level |-> "COMPLIANT", color |-> "green"]
                ELSE IF DblGeq(final_score, DblFromInt(50))
                THEN [level |-> "MODERATE", color |-> "yellow"]
                ELSE [level |-> "CRITICAL", color |-> "red"]
    IN  Segment(102, 0, RoundTenths(final_score), risk.level, risk.color,
                70, <<>>)

(***************************************************************************)
(* Bounds of the model: the longest store of the aggregation runs and of   *)
(* the geometry runs.                                                      *)
(***************************************************************************)
MaxSegments == 4
MaxGeoSegments == 3

\* Latitudes 51.0, 51.5, 52.0 and longitudes 0.0, 0.5, 1.0.
Lats == {102, 103, 104}
Lons == {0, 1, 2}

\* Segments of the geometry runs: they differ in where they lie.
GeoPoints == {<<102, 0>>, <<102, 2>>, <<103, 0>>, <<103, 1>>, <<103, 2>>,
              <<104, 0>>}
GeoPool ==
    {Segment(p[1], p[2], 800, "COMPLIANT", "green", 70, <<>>) : p \in GeoPoints}

\* Segments of the aggregation runs.  The scores 50.0 with CRITICAL is what
\* generate_segment_data stores for a final score in [49.95, 50): the level
\* is taken from the unrounded score, the stored score is rounded.
AggPool ==
    { Segment(102, 0, 800, "COMPLIANT", "green", 89, <<"roundabout">>),
      Segment(103, 0, 400, "CRITICAL", "red", 47, <<"roundabout">>),
      Segment(104, 0, 600, "MODERATE", "yellow", 60, <<"construction_zone">>),
      Segment(103, 0, 500, "CRITICAL", "red", 57, <<"roundabout", "junction">>),
      Segment(103, 0, 623, "MODERATE", "yellow", 41, <<>>) }

\* All sequences over S of the lengths 0..n.
SeqsUpTo(S, n) == UNION {[1..k -> S] : k \in 0..n}

\* json.load of the data file: the records in file order; the model numbers
\* them, segment_id being unique in the file.
LoadStore(recs) ==
    [i \in 1..Len(recs) |-> [recs[i] EXCEPT !.segment_id = i]]

GeoStores == {LoadStore(r) : r \in SeqsUpTo(GeoPool, MaxGeoSegments)}
AggStores == {LoadStore(r) : r \in SeqsUpTo(AggPool, MaxSegments)}

\* Long lists for the sampler: every length up to MaxSampleLen, and 1000.
\* The segments of a list differ in their segment_id.
MaxSampleLen == 30
\* Stores of the concurrent runs: two segments at one place and one apart.
MaxConcSegments == 2
ConcPool ==
    { Segment(102, 0, 800, "COMPLIANT", "green", 70, <<>>),
      Segment(102, 0, 600, "MODERATE", "yellow", 60, <<"construction_zone">>),
      Segment(103, 0, 400, "CRITICAL", "red", 47, <<"roundabout">>) }
ConcStores == {LoadStore(r) : r \in SeqsUpTo(ConcPool, MaxConcSegments)}

\* Stores of the binary64 geometry runs: segments on the parallel 51.5 at
\* the longitudes 0.1, 0.2 and 0.3 (coordinates in tenths of a degree).
MaxLineSegments == 1
LineLat == 515
LinePool ==
    {Segment(LineLat, lon, 800, "COMPLIANT", "green", 70, <<>>) :
        lon \in {1, 2, 3}}
LineStores == {LoadStore(r) : r \in SeqsUpTo(LinePool, MaxLineSegments)}

\* Stores of the tier runs: scores whose mean falls on a tier boundary and
\* within the rounding of the reported score below one ((80.0 + 69.9) / 2
\* = 74.95, (50.0 + 49.9) / 2 = 49.95).
MaxTierSegments == 2
TierPool ==
    { Segment(103, 0, 800, "COMPLIANT", "green", 70, <<>>),
      Segment(103, 0, 699, "MODERATE", "yellow", 60, <<>>),
      Segment(103, 0, 500, "MODERATE", "yellow", 60, <<>>),
      Segment(103, 0, 499, "CRITICAL", "red", 47, <<>>) }
TierStores == {LoadStore(r) : r \in SeqsUpTo(TierPool, MaxTierSegments)}

LongStores ==
    {LoadStore([i \in 1..n |->
                   Segment(103, 0, 800, "COMPLIANT", "green", 70, <<>>)]) :
        n \in (0..MaxSampleLen) \cup {1000}}


(***************************************************************************)
(* find_nearest_segment: the loop over the store, with float('inf') as     *)
(* the initial minimum.                                                    *)
(***************************************************************************)
Inf == 2147483647

\* Mutant: the radius test excludes the boundary (distance < radius).
RECURSIVE nearest_loop_open_radius(_, _, _, _, _, _, _)
nearest_loop_open_radius(store, i, lat, lon, max_distance_km, nearest, min_distance) ==
    IF i > Len(store) THEN nearest
    ELSE LET segment  == store[i]
             distance == haversine_distance(lat, lon, segment.latitude,
                                            segment.longitude)
         IN  IF distance < min_distance /\ distance < max_distance_km
             THEN nearest_loop_open_radius(store, i + 1, lat, lon,
                                           max_distance_km, segment, distance)
             ELSE nearest_loop_open_radius(store, i + 1, lat, lon,
                                           max_distance_km, nearest,
                                           min_distance)

\* Mutant: a candidate at the same distance replaces the current best.
RECURSIVE nearest_loop_last_tie(_, _, _, _, _, _, _)
nearest_loop_last_tie(store, i, lat, lon, max_distance_km, nearest, min_distance) ==
    IF i > Len(store) THEN nearest
    ELSE LET segment  == store[i]
             distance == haversine_distance(lat, lon, segment.latitude,
                                            segment.longitude)
         IN  IF distance <= min_distance /\ distance <= max_distance_km
             THEN nearest_loop_last_tie(store, i + 1, lat, lon,
                                        max_distance_km, segment, distance)
             ELSE nearest_loop_last_tie(store, i + 1, lat, lon,
                                        max_distance_km, nearest, min_distance)

RECURSIVE nearest_loop(_, _, _, _, _, _, _)
nearest_loop(store, i, lat, lon, max_distance_km, nearest, min_distance) ==
    IF i > Len(store) THEN nearest
    ELSE LET segment  == store[i]
             distance == haversine_distance(lat, lon, segment.latitude,
                                            segment.longitude)
         IN  IF distance < min_distance /\ distance <= max_distance_km
             THEN nearest_loop(store, i + 1, lat, lon, max_distance_km,
                               segment, distance)
             ELSE nearest_loop(store, i + 1, lat, lon, max_distance_km,
                               nearest, min_distance)

find_nearest_segment(store, lat, lon, max_distance_km) ==
    nearest_loop(store, 1, lat, lon, max_distance_km, None, Inf)

(***************************************************************************)
(* find_route_segments.  corridor_width_km is a whole number of km; a      *)
(* degree is two coordinate units, so corridor_degrees is the fraction     *)
(* 2 * corridor_width_km / 111 of a unit and the comparisons are cleared   *)
(* of their denominators.                                                  *)
(***************************************************************************)
KM_PER_DEGREE == 111

\* Mutant: the margin is subtracted from the upper edges of the box too.
in_bounding_box_shifted(seg_lat, seg_lon, start_lat, start_lon, end_lat, end_lon, corridor_width_km) ==
    /\ KM_PER_DEGREE * Min(start_lat, end_lat) - 2 * corridor_width_km
           <= KM_PER_DEGREE * seg_lat
    /\ KM_PER_DEGREE * seg_lat
           <= KM_PER_DEGREE * Max(start_lat, end_lat) - 2 * corridor_width_km
    /\ KM_PER_DEGREE * Min(start_lon, end_lon) - 2 * corridor_width_km
           <= KM_PER_DEGREE * seg_lon
    /\ KM_PER_DEGREE * seg_lon
           <= KM_PER_DEGREE * Max(start_lon, end_lon) - 2 * corridor_width_km

\* lat_min <= seg_lat <= lat_max and lon_min <= seg_lon <= lon_max
in_bounding_box(seg_lat, seg_lon, start_lat, start_lon, end_lat, end_lon, corridor_width_km) ==
    /\ KM_PER_DEGREE * Min(start_lat, end_lat) - 2 * corridor_width_km
           <= KM_PER_DEGREE * seg_lat
    /\ KM_PER_DEGREE * seg_lat
           <= KM_PER_DEGREE * Max(start_lat, end_lat) + 2 * corridor_width_km
    /\ KM_PER_DEGREE * Min(start_lon, end_lon) - 2 * corridor_width_km
           <= KM_PER_DEGREE * seg_lon
    /\ KM_PER_DEGREE * seg_lon
           <= KM_PER_DEGREE * Max(start_lon, end_lon) + 2 * corridor_width_km

\* Mutant: a segment at exactly the corridor width is left out.
within_corridor_open(perp_distance_degrees, corridor_width_km) ==
    /\ corridor_width_km >= 0
    /\ perp_distance_degrees.num * KM_PER_DEGREE * KM_PER_DEGREE
           < 4 * corridor_width_km * corridor_width_km
                * perp_distance_degrees.den

\* perp_distance_degrees * 111 <= corridor_width_km, on the squares: the
\* distance is sqrt(num / den) / 2 degrees and is not negative.
within_corridor(perp_distance_degrees, corridor_width_km) ==
    /\ corridor_width_km >= 0
    /\ perp_distance_degrees.num * KM_PER_DEGREE * KM_PER_DEGREE
           <= 4 * corridor_width_km * corridor_width_km
                * perp_distance_degrees.den

RECURSIVE route_loop(_, _, _, _, _, _, _, _)
route_loop(store, i, start_lat, start_lon, end_lat, end_lon, corridor_width_km, route_segments) ==
    IF i > Len(store) THEN route_segments
    ELSE LET segment == store[i]
             seg_lat == segment.latitude
             seg_lon == segment.longitude
         IN  IF ~in_bounding_box(seg_lat, seg_lon, start_lat, start_lon,
                                 end_lat, end_lon, corridor_width_km)
             THEN route_loop(store, i + 1, start_lat, start_lon, end_lat,
                             end_lon, corridor_width_km, route_segments)
             ELSE IF within_corridor(
                         point_to_line_distance(seg_lon, seg_lat,
                                                start_lon, start_lat,
                                                end_lon, end_lat),
                         corridor_width_km)
             THEN route_loop(store, i + 1, start_lat, start_lon, end_lat,
                             end_lon, corridor_width_km,
                             Append(route_segments, segment))
             ELSE route_loop(store, i + 1, start_lat, start_lon, end_lat,
                             end_lon, corridor_width_km, route_segments)

find_route_segments(store, start_lat, start_lon, end_lat, end_lon, corridor_width_km) ==
    route_loop(store, 1, start_lat, start_lon, end_lat, end_lon,
               corridor_width_km, <<>>)

(***************************************************************************)
(* find_route_segments as CPython evaluates it, in binary64, on a store    *)
(* and a route that lie on one parallel or on one meridian.  Coordinates   *)
(* are decimals with one digit, counted in tenths of a degree              *)
(* (51.5 deg = 515); corridor_width_km is a whole number of km.            *)
(***************************************************************************)
FltOfTenths(t) == [neg |-> FALSE, mag |-> DblOfTenths(t)]

\* x <= y of two signed floats.
FltLeq(x, y) ==
    IF x.neg # y.neg THEN x.neg
    ELSE IF x.neg THEN DblGeq(x.mag, y.mag)
    ELSE DblGeq(y.mag, x.mag)

in_bounding_box_binary64(seg_lat, seg_lon, start_lat, start_lon, end_lat, end_lon, corridor_width_km) ==
    LET corridor_degrees ==
            [neg |-> FALSE,
             mag |-> DblDivInt(DblFromInt(corridor_width_km), KM_PER_DEGREE)]
        lat_min == FltSub(FltOfTenths(Min(start_lat, end_lat)), corridor_degrees)
        lat_max == FltAdd(FltOfTenths(Max(start_lat, end_lat)), corridor_degrees)
        lon_min == FltSub(FltOfTenths(Min(start_lon, end_lon)), corridor_degrees)
        lon_max == FltAdd(FltOfTenths(Max(start_lon, end_lon)), corridor_degrees)
    IN  /\ FltLeq(lat_min, FltOfTenths(seg_lat))
        /\ FltLeq(FltOfTenths(seg_lat), lat_max)
        /\ FltLeq(lon_min, FltOfTenths(seg_lon))
        /\ FltLeq(FltOfTenths(seg_lon), lon_max)

\* perp_distance_degrees * 111 <= corridor_width_km
within_corridor_binary64(perp_distance_degrees, corridor_width_km) ==
    DblGeq(DblFromInt(corridor_width_km),
           DblMulInt(perp_distance_degrees, KM_PER_DEGREE))

\* The perpendicular distance of a segment from the route, in degrees.
perp_distance_binary64(segment, start_lat, start_lon, end_lat, end_lon) ==
    point_to_line_distance_binary64(
        FltOfTenths(segment.longitude), FltOfTenths(segment.latitude),
        FltOfTenths(start_lon), FltOfTenths(start_lat),
        FltOfTenths(end_lon), FltOfTenths(end_lat))

RECURSIVE route_loop_binary64(_, _, _, _, _, _, _, _)
route_loop_binary64(store, i, start_lat, start_lon, end_lat, end_lon, corridor_width_km, route_segments) ==
    IF i > Len(store) THEN route_segments
    ELSE LET segment == store[i]
         IN  IF ~in_bounding_box_binary64(segment.latitude, segment.longitude,
                                          start_lat, start_lon, end_lat,
                                          end_lon, corridor_width_km)
             THEN route_loop_binary64(store, i + 1, start_lat, start_lon,
                                      end_lat, end_lon, corridor_width_km,
                                      route_segments)
             ELSE IF within_corridor_binary64(
                         perp_distance_binary64(segment, start_lat, start_lon,
                                                end_lat, end_lon),
                         corridor_width_km)
             THEN route_loop_binary64(store, i + 1, start_lat, start_lon,
                                      end_lat, end_lon, corridor_width_km,
                                      Append(route_segments, segment))
             ELSE route_loop_binary64(store, i + 1, start_lat, start_lon,
                                      end_lat, end_lon, corridor_width_km,
                                      route_segments)

find_route_segments_binary64(store, start_lat, start_lon, end_lat, end_lon, corridor_width_km) ==
    route_loop_binary64(store, 1, start_lat, start_lon, end_lat, end_lon,
                        corridor_width_km, <<>>)

(***************************************************************************)
(* sample_segments_evenly: step is the float len / max_samples and the     *)
(* index of sample i (from 0) is int(i * step).                            *)
(***************************************************************************)
\* Mutant: a list within the cap is answered with the empty sampled list.
sample_segments_evenly_short_empty(segments, max_samples) ==
    IF Len(segments) <= max_samples THEN <<>>
    ELSE LET step == DblDivInt(DblFromInt(Len(segments)), max_samples)
         IN  [k \in 1..max_samples |->
                 segments[DblFloor(DblMulInt(step, k - 1)) + 1]]

\* Mutant: the samples are the first max_samples elements (idx = i).
sample_segments_evenly_head(segments, max_samples) ==
    IF Len(segments) <= max_samples THEN segments
    ELSE [k \in 1..max_samples |-> segments[k]]

sample_segments_evenly(segments, max_samples) ==
    IF Len(segments) <= max_samples THEN segments
    ELSE LET step == DblDivInt(DblFromInt(Len(segments)), max_samples)
         IN  [k \in 1..max_samples |->
                 segments[DblFloor(DblMulInt(step, k - 1)) + 1]]

(***************************************************************************)
(* generate_recommendations.  A message is its text with the number the    *)
(* f-string puts in front of it (0 for a text without a number).           *)
(***************************************************************************)
RECURSIVE SumLane(_, _)
SumLane(segments, n) ==
    IF n = 0 THEN DblZero
    ELSE DblAdd(SumLane(segments, n - 1),
                DblOfHundredths(segments[n].infrastructure_quality.lane_markings))

RECURSIVE SumScore(_, _)
SumScore(segments, n) ==
    IF n = 0 THEN DblZero
    ELSE DblAdd(SumScore(segments, n - 1),
                DblOfTenths(segments[n].readiness_score))

\* sum(1 for s in segments if s['risk_level'] == level)
CountLevel(segments, level) ==
    Len(SelectSeq(segments, LAMBDA s : s.risk_level = level))

HasFeature(s, f) ==
    \E j \in 1..Len(s.detected_features) : s.detected_features[j] = f

\* sum(1 for s in segments if f in s['detected_features'])
CountFeature(segments, f) ==
    Len(SelectSeq(segments, LAMBDA s : HasFeature(s, f)))

MsgCritical(n) ==
    [n |-> n, text |-> "critical risk segments detected - manual review recommended"]
MsgLane ==
    [n |-> 0, text |-> "Lane marking quality below threshold - consider alternative route or infrastructure upgrade"]
MsgRoundabout(n) ==
    [n |-> n, text |-> "roundabouts detected - ensure AV is validated for UK-style roundabouts"]
MsgConstruction(n) ==
    [n |-> n, text |-> "construction zones - check for real-time updates before deployment"]
MsgDefault ==
    [n |-> 0, text |-> "Route meets minimum readiness criteria for AV deployment"]

\* The outcome of a call that may raise: the exception's name, or "" and
\* the value returned.
Raised(name) == [raised |-> name, value |-> <<>>]
Returned(v) == [raised |-> "", value |-> v]

\* The list built by the four tests (it may be empty).
recommendation_list(segments) ==
    LET critical_count == CountLevel(segments, "CRITICAL")
        avg_lane_quality ==
            DblDivInt(SumLane(segments, Len(segments)), Len(segments))
        roundabouts == CountFeature(segments, "roundabout")
        construction == CountFeature(segments, "construction_zone")
        r1 == IF critical_count > 0 THEN <<MsgCritical(critical_count)>>
              ELSE <<>>
        r2 == IF DblLess(avg_lane_quality, DblOfTenths(6)) THEN <<MsgLane>>
              ELSE <<>>
        r3 == IF roundabouts > 3 THEN <<MsgRoundabout(roundabouts)>> ELSE <<>>
        r4 == IF construction > 0 THEN <<MsgConstruction(construction)>>
              ELSE <<>>
    IN  r1 \o r2 \o r3 \o r4

\* Mutant: the list is returned as it is, without the default message.
generate_recommendations_no_default(segments) ==
    IF Len(segments) = 0 THEN Raised("ZeroDivisionError")
    ELSE Returned(recommendation_list(segments))

\* Mutant: the mean of no lane markings counts as 0 and no exception is
\* raised.
generate_recommendations_empty_mean_zero(segments) ==
    IF Len(segments) = 0 THEN Returned(<<MsgLane>>)
    ELSE LET recommendations == recommendation_list(segments)
         IN  Returned(IF recommendations # <<>> THEN recommendations
                      ELSE <<MsgDefault>>)

generate_recommendations(segments) ==
    IF Len(segments) = 0 THEN Raised("ZeroDivisionError")
    ELSE LET recommendations == recommendation_list(segments)
         IN  Returned(IF recommendations # <<>> THEN recommendations
                      ELSE <<MsgDefault>>)


(***************************************************************************)
(* The HTTP handlers.  A response is its status with the body (200) or     *)
(* the detail of the HTTPException (404); an exception no handler catches  *)
(* is the status 500 of the framework.                                     *)
(***************************************************************************)
HTTPException(status_code, detail) == [status |-> status_code, detail |-> detail]
Ok(body) == [status |-> 200, body |-> body]
InternalServerError(name) == [status |-> 500, detail |-> name]

\* The radius of get_location_readiness (0.5 km), the corridor width
\* find_route_segments defaults to (5.0 km) and the display cap of
\* assess_route.
LOCATION_RADIUS_M == 500
DEFAULT_CORRIDOR_KM == 5
MAX_SAMPLES == 1000

get_location_readiness(store, lat, lon) ==
    LET segment == find_nearest_segment(store, lat, lon, LOCATION_RADIUS_M)
    IN  IF segment = None
        THEN HTTPException(404, "No road segment found within 500m of specified location")
        ELSE Ok(RoadSegment(segment))

\* round(x, 2) of a distance in metres, in hundredths of a km.
RoundHundredthsKm(m) ==
    LET q == m \div 10
        r == m % 10
    IN  IF r > 5 \/ (r = 5 /\ q % 2 = 1) THEN q + 1 ELSE q

\* [RoadSegment(**s) for s in segments]
RoadSegments(segments) ==
    [i \in 1..Len(segments) |-> RoadSegment(segments[i])]

\* Mutant: the score of the first segment stands for the mean.
mean_readiness_of_first(segments) ==
    DblOfTenths(segments[1].readiness_score)

\* avg_score = sum(s['readiness_score'] for s in segments) / len(segments)
mean_readiness(segments) ==
    DblDivInt(SumScore(segments, Len(segments)), Len(segments))

\* Mutant: the critical list is filled only for a route that is CRITICAL.
critical_segments_of_critical_route(segments) ==
    IF DblLess(mean_readiness(segments), DblFromInt(50))
    THEN SelectSeq(segments, LAMBDA s : s.risk_level = "CRITICAL")
    ELSE <<>>

\* critical_segments = [s for s in segments if s['risk_level'] == 'CRITICAL']
critical_segments_of(segments) ==
    SelectSeq(segments, LAMBDA s : s.risk_level = "CRITICAL")

\* Mutant: the boundaries fall in the lower tier (> for >=).
overall_risk_level_open(avg_score) ==
    IF DblLess(DblFromInt(75), avg_score) THEN "COMPLIANT"
    ELSE IF DblLess(DblFromInt(50), avg_score) THEN "MODERATE"
    ELSE "CRITICAL"

\* The tier of the mean.
overall_risk_level(avg_score) ==
    IF DblGeq(avg_score, DblFromInt(75)) THEN "COMPLIANT"
    ELSE IF DblGeq(avg_score, DblFromInt(50)) THEN "MODERATE"
    ELSE "CRITICAL"

\* Mutant: the metrics are computed after the sampling, from the display
\* segments.
assess_route_sampled_first(store, start_lat, start_lon, end_lat, end_lon, max_samples) ==
    LET matched == find_route_segments(store, start_lat, start_lon,
                                       end_lat, end_lon, DEFAULT_CORRIDOR_KM)
    IN  IF Len(matched) = 0
        THEN HTTPException(404, "No road segments found along specified route")
        ELSE
        LET segments == sample_segments_evenly(matched, max_samples)
            avg_score == mean_readiness(segments)
        IN  [status |-> 200,
             avg_score |-> avg_score,
             body |-> [total_distance_km |-> RoundHundredthsKm(
                           haversine_distance(start_lat, start_lon,
                                              end_lat, end_lon)),
                       average_readiness_score |-> RoundTenths(avg_score),
                       overall_risk_level |-> overall_risk_level(avg_score),
                       segments |-> RoadSegments(segments),
                       critical_segments |->
                           RoadSegments(critical_segments_of(segments)),
                       recommendations |->
                           generate_recommendations(segments).value]]

\* Mutant: the handler goes on to the metrics without the not-found test,
\* and the division by len(segments) = 0 raises.
assess_route_unguarded(store, start_lat, start_lon, end_lat, end_lon, max_samples) ==
    LET segments == find_route_segments(store, start_lat, start_lon,
                                        end_lat, end_lon, DEFAULT_CORRIDOR_KM)
    IN  IF Len(segments) = 0
        THEN InternalServerError("ZeroDivisionError")
        ELSE
        LET avg_score == mean_readiness(segments)
        IN  [status |-> 200,
             avg_score |-> avg_score,
             body |-> [total_distance_km |-> RoundHundredthsKm(
                           haversine_distance(start_lat, start_lon,
                                              end_lat, end_lon)),
                       average_readiness_score |-> RoundTenths(avg_score),
                       overall_risk_level |-> overall_risk_level(avg_score),
                       segments |-> RoadSegments(
                           sample_segments_evenly(segments, max_samples)),
                       critical_segments |->
                           RoadSegments(critical_segments_of(segments)),
                       recommendations |->
                           generate_recommendations(segments).value]]

\* assess_route with the display cap as a parameter (the handler passes
\* MAX_SAMPLES).  avg_score is the handler's unrounded local, kept beside
\* the response body; route_id, a timestamp, is left out.
assess_route(store, start_lat, start_lon, end_lat, end_lon, max_samples) ==
    LET segments == find_route_segments(store, start_lat, start_lon,
                                        end_lat, end_lon, DEFAULT_CORRIDOR_KM)
    IN  IF Len(segments) = 0
        THEN HTTPException(404, "No road segments found along specified route")
        ELSE
        LET avg_score == mean_readiness(segments)
            critical_segments == critical_segments_of(segments)
            overall_risk == overall_risk_level(avg_score)
            total_distance ==
                haversine_distance(start_lat, start_lon, end_lat, end_lon)
            recommendations == generate_recommendations(segments).value
            display_segments == sample_segments_evenly(segments, max_samples)
        IN  [status |-> 200,
             avg_score |-> avg_score,
             body |-> [total_distance_km |-> RoundHundredthsKm(total_distance),
                       average_readiness_score |-> RoundTenths(avg_score),
                       overall_risk_level |-> overall_risk,
                       segments |-> RoadSegments(display_segments),
                       critical_segments |-> RoadSegments(critical_segments),
                       recommendations |-> recommendations]]

get_statistics(store) ==
    LET total_segments == Len(store)
    IN  IF total_segments = 0 THEN InternalServerError("ZeroDivisionError")
        ELSE
        LET avg_score == mean_readiness(store)
        IN  Ok([total_segments_assessed |-> total_segments,
                average_readiness_score |-> RoundTenths(avg_score),
                risk_distribution |->
                    [COMPLIANT |-> CountLevel(store, "COMPLIANT"),
                     MODERATE |-> CountLevel(store, "MODERATE"),
                     CRITICAL |-> CountLevel(store, "CRITICAL")],
                \* round(total_segments * 0.05, 1), in tenths of a km
                coverage_km |-> RoundTenths(
                    DblDivInt(DblFromInt(total_segments * 5), 100))])

(***************************************************************************)
(* The bodies of the two loops over the store, one iteration each, for     *)
(* the calls that run side by side.                                        *)
(***************************************************************************)
\* Mutant: an equal distance replaces the nearest segment found so far.
nearest_body_last_tie(segment, lat, lon, max_distance_km, local) ==
    LET distance == haversine_distance(lat, lon, segment.latitude,
                                       segment.longitude)
    IN  IF distance <= local.min_distance /\ distance <= max_distance_km
        THEN [nearest |-> segment, min_distance |-> distance]
        ELSE local

\* One iteration of the loop of find_nearest_segment; local holds nearest
\* and min_distance.
nearest_body(segment, lat, lon, max_distance_km, local) ==
    LET distance == haversine_distance(lat, lon, segment.latitude,
                                       segment.longitude)
    IN  IF distance < local.min_distance /\ distance <= max_distance_km
        THEN [nearest |-> segment, min_distance |-> distance]
        ELSE local

\* One iteration of the loop of find_route_segments.
route_body(segment, start_lat, start_lon, end_lat, end_lon, corridor_width_km, route_segments) ==
    IF ~in_bounding_box(segment.latitude, segment.longitude, start_lat,
                        start_lon, end_lat, end_lon, corridor_width_km)
    THEN route_segments
    ELSE IF within_corridor(
                point_to_line_distance(segment.longitude, segment.latitude,
                                       start_lon, start_lat,
                                       end_lon, end_lat),
                corridor_width_km)
    THEN Append(route_segments, segment)
    ELSE route_segments

(***************************************************************************)
(* State: the store, and the call in progress (op, "idle" between calls)    *)
(* with its arguments and its result.  frames holds the calls that the     *)
(* worker threads of the server run side by side: each caller's call, its  *)
(* position i in the loop over the store, its local variables, and its     *)
(* result once it is done.                                                 *)
(***************************************************************************)
VARIABLES ROAD_SEGMENTS, op, args, ret, frames

vars == <<ROAD_SEGMENTS, op, args, ret, frames>>

Callers == {1, 2}
IdleFrame ==
    [op |-> "idle", args |-> <<>>, i |-> 0, local |-> <<>>, done |-> FALSE,
     ret |-> <<>>]

\* Inputs of the calls.
Radii == {0, LOCATION_RADIUS_M, 34594, 60000}
Widths == {DEFAULT_CORRIDOR_KM, 40, 60, 111}
SampleCounts == {2, MAX_SAMPLES}
SamplerCaps == SampleCounts \cup {3, 22}
HaversinePoints == Lats \X (Lons \cup {-1})
\* Final scores of the generator, in hundredths: the ends of the clamp and
\* ScoreSpread hundredths on either side of the two thresholds.
ScoreSpread == 60
FinalScores ==
    {0, 10000} \cup {t * 100 + d : t \in {50, 75},
                                  d \in (-ScoreSpread)..ScoreSpread}
RouteStarts == {<<102, 0>>, <<103, 1>>, <<104, 2>>}
\* Longitudes of the ends of a route on the parallel, in tenths of a
\* degree (0.1 to 1.2), and the corridor widths of the binary64 geometry
\* runs.
Tenths == {1, 3, 4, 8, 11, 12}
LineWidths == {0, DEFAULT_CORRIDOR_KM, KM_PER_DEGREE}

Loaded(stores) ==
    /\ ROAD_SEGMENTS \in stores
    /\ op = "idle"
    /\ args = <<>>
    /\ ret = <<>>
    /\ frames = [c \in Callers |-> IdleFrame]

InitGeo == Loaded(GeoStores)
InitAgg == Loaded(AggStores)
InitUnit == Loaded(LongStores)
InitConc == Loaded(ConcStores)
InitLine == Loaded(LineStores)
\* The generator runs before the data file exists.
InitGen == Loaded({<<>>})
InitTier == Loaded(TierStores)
Init == Loaded(GeoStores \cup AggStores)

FindNearestSegment ==
    \E lat \in Lats, lon \in Lons, max_distance_km \in Radii :
        /\ op = "idle"
        /\ op' = "find_nearest_segment"
        /\ args' = [lat |-> lat, lon |-> lon,
                    max_distance_km |-> max_distance_km]
        /\ ret' = find_nearest_segment(ROAD_SEGMENTS, lat, lon, max_distance_km)
        /\ UNCHANGED <<ROAD_SEGMENTS, frames>>

FindRouteSegments ==
    \E start \in RouteStarts, end_lat \in Lats, end_lon \in Lons,
       corridor_width_km \in Widths :
        /\ op = "idle"
        /\ op' = "find_route_segments"
        /\ args' = [start_lat |-> start[1], start_lon |-> start[2],
                    end_lat |-> end_lat, end_lon |-> end_lon,
                    corridor_width_km |-> corridor_width_km]
        /\ ret' = find_route_segments(ROAD_SEGMENTS, start[1], start[2],
                                      end_lat, end_lon, corridor_width_km)
        /\ UNCHANGED <<ROAD_SEGMENTS, frames>>

\* find_route_segments on a route along the parallel of the store.
FindRouteSegmentsOnLine ==
    \E start_lon \in Tenths, end_lon \in Tenths,
       corridor_width_km \in LineWidths :
        /\ op = "idle"
        /\ op' = "find_route_segments"
        /\ args' = [start_lat |-> LineLat, start_lon |-> start_lon,
                    end_lat |-> LineLat, end_lon |-> end_lon,
                    corridor_width_km |-> corridor_width_km]
        /\ ret' = find_route_segments_binary64(ROAD_SEGMENTS, LineLat,
                                               start_lon, LineLat, end_lon,
                                               corridor_width_km)
        /\ UNCHANGED <<ROAD_SEGMENTS, frames>>

\* point_to_line_distance from a segment of the store to a route along its
\* parallel, as find_route_segments calls it: x is the longitude.
PointToLineDistance ==
    \E i \in 1..Len(ROAD_SEGMENTS), x1 \in Tenths, x2 \in Tenths :
        /\ op = "idle"
        /\ op' = "point_to_line_distance"
        /\ args' = [px |-> ROAD_SEGMENTS[i].longitude,
                    py |-> ROAD_SEGMENTS[i].latitude,
                    x1 |-> x1, y1 |-> LineLat, x2 |-> x2, y2 |-> LineLat]
        /\ ret' = perp_distance_binary64(ROAD_SEGMENTS[i], LineLat, x1,
                                         LineLat, x2)
        /\ UNCHANGED <<ROAD_SEGMENTS, frames>>

GenerateSegmentData ==
    \E final_score \in FinalScores :
        /\ op = "idle"
        /\ op' = "generate_segment_data"
        /\ args' = [final_score |-> final_score]
        /\ ret' = generate_segment_data(DblOfHundredths(final_score))
        /\ UNCHANGED <<ROAD_SEGMENTS, frames>>

HaversineDistance ==
    \E a \in HaversinePoints, b \in HaversinePoints :
        /\ op = "idle"
        /\ op' = "haversine_distance"
        /\ args' = [lat1 |-> a[1], lon1 |-> a[2], lat2 |-> b[1],
                    lon2 |-> b[2]]
        /\ ret' = haversine_distance(a[1], a[2], b[1], b[2])
        /\ UNCHANGED <<ROAD_SEGMENTS, frames>>

SampleSegmentsEvenly ==
    \E max_samples \in SamplerCaps :
        /\ op = "idle"
        /\ op' = "sample_segments_evenly"
        /\ args' = [segments |-> ROAD_SEGMENTS, max_samples |-> max_samples]
        /\ ret' = sample_segments_evenly(ROAD_SEGMENTS, max_samples)
        /\ UNCHANGED <<ROAD_SEGMENTS, frames>>

GenerateRecommendations ==
    /\ op = "idle"
    /\ op' = "generate_recommendations"
    /\ args' = [segments |-> ROAD_SEGMENTS]
    /\ ret' = generate_recommendations(ROAD_SEGMENTS)
    /\ UNCHANGED <<ROAD_SEGMENTS, frames>>

GetLocationReadiness ==
    \E lat \in Lats, lon \in Lons :
        /\ op = "idle"
        /\ op' = "get_location_readiness"
        /\ args' = [lat |-> lat, lon |-> lon]
        /\ ret' = get_location_readiness(ROAD_SEGMENTS, lat, lon)
        /\ UNCHANGED <<ROAD_SEGMENTS, frames>>

AssessRoute ==
    \E start_lat \in Lats, end_lat \in Lats, lon \in {0},
       max_samples \in SampleCounts :
        /\ op = "idle"
        /\ op' = "assess_route"
        /\ args' = [start_lat |-> start_lat, start_lon |-> lon,
                    end_lat |-> end_lat, end_lon |-> lon,
                    max_samples |-> max_samples]
        /\ ret' = assess_route(ROAD_SEGMENTS, start_lat, lon, end_lat, lon,
                               max_samples)
        /\ UNCHANGED <<ROAD_SEGMENTS, frames>>

GetStatistics ==
    /\ op = "idle"
    /\ op' = "get_statistics"
    /\ args' = <<>>
    /\ ret' = get_statistics(ROAD_SEGMENTS)
    /\ UNCHANGED <<ROAD_SEGMENTS, frames>>

\* The caller takes the result; the next call can start.
Return ==
    /\ op # "idle"
    /\ op' = "idle"
    /\ args' = <<>>
    /\ ret' = <<>>
    /\ UNCHANGED <<ROAD_SEGMENTS, frames>>

\* The calls made side by side.
ConcCalls ==
    {[op |-> "find_nearest_segment",
      args |-> [lat |-> lat, lon |-> 0, max_distance_km |-> r]] :
        lat \in {102, 103}, r \in {LOCATION_RADIUS_M, 60000}}
    \cup {[op |-> "find_route_segments",
           args |-> [start_lat |-> 102, start_lon |-> 0, end_lat |-> e,
                     end_lon |-> 0,
                     corridor_width_km |-> DEFAULT_CORRIDOR_KM]] :
             e \in {102, 104}}
    \cup {[op |-> "assess_route",
           args |-> [start_lat |-> 102, start_lon |-> 0, end_lat |-> e,
                     end_lon |-> 0, max_samples |-> MAX_SAMPLES]] :
             e \in {102, 104}}
    \cup {[op |-> "sample_segments_evenly", args |-> [max_samples |-> m]] :
             m \in {1, 2}}
    \cup {[op |-> "generate_recommendations", args |-> <<>>],
          [op |-> "get_statistics", args |-> <<>>]}

LoopOps == {"find_nearest_segment", "find_route_segments"}

\* A worker thread starts a call: the locals before the loop.
CallInvoke ==
    \E c \in Callers, call \in ConcCalls :
        /\ frames[c].op = "idle"
        /\ frames' = [frames EXCEPT ![c] =
               [op |-> call.op, args |-> call.args, i |-> 1,
                local |->
                    IF call.op = "find_nearest_segment"
                    THEN [nearest |-> None, min_distance |-> Inf]
                    ELSE <<>>,
                done |-> FALSE, ret |-> <<>>]]
        /\ UNCHANGED <<ROAD_SEGMENTS, op, args, ret>>

\* One iteration of a loop over the store: the segment at the position of
\* the list iterator is read from the store as it is now.
LoopStep ==
    \E c \in Callers :
        LET f == frames[c]
        IN  /\ f.op \in LoopOps
            /\ ~f.done
            /\ f.i <= Len(ROAD_SEGMENTS)
            /\ frames' = [frames EXCEPT ![c] =
                   [f EXCEPT
                       !.i = f.i + 1,
                       !.local =
                           IF f.op = "find_nearest_segment"
                           THEN nearest_body(ROAD_SEGMENTS[f.i], f.args.lat,
                                             f.args.lon,
                                             f.args.max_distance_km, f.local)
                           ELSE route_body(ROAD_SEGMENTS[f.i],
                                           f.args.start_lat, f.args.start_lon,
                                           f.args.end_lat, f.args.end_lon,
                                           f.args.corridor_width_km,
                                           f.local)]]
            /\ UNCHANGED <<ROAD_SEGMENTS, op, args, ret>>

\* The call computes its result: a loop that has passed the end of the
\* store returns its local, the other calls read the store in one step.
CallComplete ==
    \E c \in Callers :
        LET f == frames[c]
        IN  /\ f.op # "idle"
            /\ ~f.done
            /\ f.op \in LoopOps => f.i > Len(ROAD_SEGMENTS)
            /\ frames' = [frames EXCEPT ![c] =
                   [f EXCEPT
                       !.done = TRUE,
                       !.ret =
                           CASE f.op = "find_nearest_segment" ->
                                    f.local.nearest
                             [] f.op = "find_route_segments" -> f.local
                             [] f.op = "assess_route" ->
                                    assess_route(ROAD_SEGMENTS,
                                                 f.args.start_lat,
                                                 f.args.start_lon,
                                                 f.args.end_lat,
                                                 f.args.end_lon,
                                                 f.args.max_samples)
                             [] f.op = "sample_segments_evenly" ->
                                    sample_segments_evenly(
                                        ROAD_SEGMENTS, f.args.max_samples)
                             [] f.op = "generate_recommendations" ->
                                    generate_recommendations(ROAD_SEGMENTS)
                             [] f.op = "get_statistics" ->
                                    get_statistics(ROAD_SEGMENTS)]]
            /\ UNCHANGED <<ROAD_SEGMENTS, op, args, ret>>

\* The caller takes the result; the thread is free again.
CallReturn ==
    \E c \in Callers :
        /\ frames[c].done
        /\ frames' = [frames EXCEPT ![c] = IdleFrame]
        /\ UNCHANGED <<ROAD_SEGMENTS, op, args, ret>>

NextConc ==
    \/ CallInvoke
    \/ LoopStep
    \/ CallComplete
    \/ CallReturn

NextGeo ==
    \/ FindNearestSegment
    \/ FindRouteSegments
    \/ GetLocationReadiness
    \/ Return

NextAgg ==
    \/ GetLocationReadiness
    \/ AssessRoute
    \/ GenerateRecommendations
    \/ SampleSegmentsEvenly
    \/ GetStatistics
    \/ Return

NextLine ==
    \/ FindRouteSegmentsOnLine
    \/ PointToLineDistance
    \/ Return

NextTier ==
    \/ AssessRoute
    \/ Return

NextGen ==
    \/ GenerateSegmentData
    \/ Return

NextUnit ==
    \/ HaversineDistance
    \/ SampleSegmentsEvenly
    \/ Return

Next ==
    \/ FindNearestSegment
    \/ FindRouteSegments
    \/ GetLocationReadiness
    \/ AssessRoute
    \/ GenerateRecommendations
    \/ SampleSegmentsEvenly
    \/ GetStatistics
    \/ Return

\* Every call on every store.
Spec == Init /\ [][Next]_vars
\* The geometric queries on stores that differ in where the segments lie.
SpecGeo == InitGeo /\ [][NextGeo]_vars
\* The aggregation on stores that differ in what the segments carry.
SpecAgg == InitAgg /\ [][NextAgg]_vars
\* The functions called on their own, on long lists.
SpecUnit == InitUnit /\ [][NextUnit]_vars
\* The data generator.
SpecGen == InitGen /\ [][NextGen]_vars
\* The route assessment on stores whose means lie at the tier boundaries.
SpecTier == InitTier /\ [][NextTier]_vars
\* The degree-space geometry in binary64, on stores along one parallel.
SpecLine == InitLine /\ [][NextLine]_vars
\* Two callers at once, their calls interleaved step by step.
SpecConc == InitConc /\ [][NextConc]_vars


(***************************************************************************)
(* Properties.                                                             *)
(***************************************************************************)
StoreIndex == 1..Len(ROAD_SEGMENTS)

\* Distance of the i-th segment of the store from the point of the call
\* find_nearest_segment in progress.
QueryDistance(i) ==
    haversine_distance(args.lat, args.lon, ROAD_SEGMENTS[i].latitude,
                       ROAD_SEGMENTS[i].longitude)

\* C1: find_nearest_segment returns no segment iff every segment of the
\* store is farther than max_distance_km from the point; otherwise it
\* returns a segment of the store whose distance is <= max_distance_km and
\* <= the distance of every segment of the store.
C1_NearestWithinRadius ==
    op = "find_nearest_segment" =>
        /\ ret = None <=>
               \A i \in StoreIndex : QueryDistance(i) > args.max_distance_km
        /\ ret # None =>
               \E k \in StoreIndex :
                   /\ ret = ROAD_SEGMENTS[k]
                   /\ QueryDistance(k) <= args.max_distance_km
                   /\ \A i \in StoreIndex : QueryDistance(k) <= QueryDistance(i)

\* A segment at exactly the radius is returned while another segment of
\* the store lies outside the radius.
C1_Witness ==
    /\ op = "find_nearest_segment"
    /\ ret # None
    /\ args.max_distance_km > 0
    /\ QueryDistance(ret.segment_id) = args.max_distance_km
    /\ \E i \in StoreIndex : QueryDistance(i) > args.max_distance_km

\* C2: of several segments at the same minimal distance within the radius,
\* find_nearest_segment returns the one that comes first in the store.
C2_FirstOfTies ==
    (op = "find_nearest_segment" /\ ret # None) =>
        \A i \in StoreIndex :
            QueryDistance(i) = QueryDistance(ret.segment_id)
                => ret.segment_id <= i

\* Two segments at different places tie for the minimum, after a farther
\* segment that comes first in the store.
C2_Witness ==
    /\ op = "find_nearest_segment"
    /\ ret # None
    /\ ret.segment_id > 1
    /\ \E i \in StoreIndex :
           /\ i > ret.segment_id
           /\ QueryDistance(i) = QueryDistance(ret.segment_id)
           /\ <<ROAD_SEGMENTS[i].latitude, ROAD_SEGMENTS[i].longitude>>
                  # <<ret.latitude, ret.longitude>>

\* The corridor test of the call find_route_segments in progress, as the
\* specification states it: inside the box of start and end widened by
\* corridor_width_km / 111 degrees, and at a degree-space distance from
\* the segment [start, end] that, times 111, is at most the width.
\* (Coordinates count half degrees: the margin is 2 * width / 111 units.)
DistanceToRoute(seg) ==
    point_to_line_distance(seg.latitude, seg.longitude,
                           args.start_lat, args.start_lon,
                           args.end_lat, args.end_lon)

InCorridor(seg, width) ==
    LET lat_lo == Min(args.start_lat, args.end_lat)
        lat_hi == Max(args.start_lat, args.end_lat)
        lon_lo == Min(args.start_lon, args.end_lon)
        lon_hi == Max(args.start_lon, args.end_lon)
        d2     == DistanceToRoute(seg)
    IN  /\ 111 * (lat_lo - seg.latitude) <= 2 * width
        /\ 111 * (seg.latitude - lat_hi) <= 2 * width
        /\ 111 * (lon_lo - seg.longitude) <= 2 * width
        /\ 111 * (seg.longitude - lon_hi) <= 2 * width
        /\ width >= 0
        /\ 111 * 111 * d2.num <= 4 * width * width * d2.den

\* d2(a) < d2(b) for two squared distances given as fractions.
FracLess(a, b) == a.num * b.den < b.num * a.den

\* C3: find_route_segments returns exactly the segments of the store that
\* pass the corridor test, each once and in store order.
C3_CorridorExact ==
    op = "find_route_segments" =>
        ret = SelectSeq(ROAD_SEGMENTS,
                        LAMBDA seg : InCorridor(seg, args.corridor_width_km))

\* A call that keeps a segment at exactly the corridor width, leaves a
\* segment of the store out, and returns a farther segment before a nearer
\* one (the result is not sorted by distance).
C3_Witness ==
    /\ op = "find_route_segments"
    /\ Len(ret) >= 2
    /\ Len(ret) < Len(ROAD_SEGMENTS)
    /\ \E i \in 1..Len(ret) :
           LET d2 == DistanceToRoute(ret[i])
           IN  /\ d2.num > 0
               /\ 111 * 111 * d2.num
                      = 4 * args.corridor_width_km * args.corridor_width_km
                          * d2.den
    /\ \E i, j \in 1..Len(ret) :
           i < j /\ FracLess(DistanceToRoute(ret[j]), DistanceToRoute(ret[i]))

\* a is a subsequence of b (the elements of b are distinct).
IsSubseq(a, b) ==
    SelectSeq(b, LAMBDA x : \E i \in 1..Len(a) : a[i] = x) = a

RouteWith(width) ==
    find_route_segments(ROAD_SEGMENTS, args.start_lat, args.start_lon,
                        args.end_lat, args.end_lon, width)

\* C4: for the same store, start and end, every segment returned with a
\* corridor width w1 is returned with every width w2 >= w1: the result for
\* w1 is a subsequence of the result for w2.
C4_MonotonicInWidth ==
    op = "find_route_segments" =>
        \A w2 \in Widths :
            w2 >= args.corridor_width_km => IsSubseq(ret, RouteWith(w2))

\* A narrow corridor matches some segments and a wider one matches more.
C4_Witness ==
    /\ op = "find_route_segments"
    /\ Len(ret) >= 1
    /\ \E w2 \in Widths :
           /\ w2 > args.corridor_width_km
           /\ Len(RouteWith(w2)) > Len(ret)


\* The full matched set of the call assess_route in progress.
Matched ==
    find_route_segments(ROAD_SEGMENTS, args.start_lat, args.start_lon,
                        args.end_lat, args.end_lon, DEFAULT_CORRIDOR_KM)

\* The route metrics of a response: everything but the display segments.
Metrics(response) ==
    [avg_score |-> response.avg_score,
     average_readiness_score |-> response.body.average_readiness_score,
     overall_risk_level |-> response.body.overall_risk_level,
     critical_segments |-> response.body.critical_segments,
     recommendations |-> response.body.recommendations]

AssessWith(max_samples) ==
    assess_route(ROAD_SEGMENTS, args.start_lat, args.start_lon,
                 args.end_lat, args.end_lon, max_samples)

\* C5: the mean readiness, the overall risk level, the critical segments
\* and the recommendations of a route assessment are those of the same
\* call with the display cap 1, hence the same for every display cap; the
\* mean and the recommendations are those of the full matched set, and the
\* display segments are the sampler's output on the full matched set.
C5_MetricsIgnoreSampling ==
    (op = "assess_route" /\ ret.status = 200) =>
        LET matched == Matched
            capped  == AssessWith(1)
        IN  /\ Metrics(capped) = Metrics(ret)
            /\ ret.avg_score = mean_readiness(matched)
            /\ ret.body.recommendations =
                   generate_recommendations(matched).value
            /\ ret.body.segments =
                   RoadSegments(sample_segments_evenly(matched,
                                                       args.max_samples))

\* The display list is cut below the matched set and leaves out a segment
\* that the critical list reports.
C5_Witness ==
    /\ op = "assess_route"
    /\ ret.status = 200
    /\ Len(ret.body.segments) < Len(Matched)
    /\ \E i \in 1..Len(ret.body.critical_segments) :
           \A j \in 1..Len(ret.body.segments) :
               ret.body.segments[j] # ret.body.critical_segments[i]

\* C6: the overall risk level is one of the three tiers and is decided by
\* the mean readiness the assessment computed: COMPLIANT iff mean >= 75,
\* MODERATE iff 50 <= mean < 75, CRITICAL iff mean < 50.
C6_TierOfMean ==
    (op = "assess_route" /\ ret.status = 200) =>
        LET level == ret.body.overall_risk_level
            ge75  == DblGeq(ret.avg_score, DblFromInt(75))
            ge50  == DblGeq(ret.avg_score, DblFromInt(50))
        IN  /\ level \in {"COMPLIANT", "MODERATE", "CRITICAL"}
            /\ level = "COMPLIANT" <=> ge75
            /\ level = "MODERATE" <=> (ge50 /\ ~ge75)
            /\ level = "CRITICAL" <=> ~ge50

\* A route of several segments whose mean is exactly 75 is COMPLIANT.
C6_Witness ==
    /\ op = "assess_route"
    /\ ret.status = 200
    /\ Len(Matched) >= 2
    /\ ret.avg_score = DblFromInt(75)
    /\ ret.body.overall_risk_level = "COMPLIANT"

\* C7: the mean readiness computed by the assessment lies between the
\* minimum and the maximum readiness_score of the matched segments.
C7_MeanWithinMinMax ==
    (op = "assess_route" /\ ret.status = 200) =>
        /\ \E i \in 1..Len(Matched) :
               DblGeq(ret.avg_score, DblOfTenths(Matched[i].readiness_score))
        /\ \E i \in 1..Len(Matched) :
               DblGeq(DblOfTenths(Matched[i].readiness_score), ret.avg_score)

C9_CriticalDerivedFromScore ==
    (op = "assess_route" /\ ret.status = 200) =>
        LET derived == SelectSeq(Matched, LAMBDA s : s.readiness_score < 500)
        IN  /\ ret.body.critical_segments = RoadSegments(derived)
            /\ \A i \in 1..Len(ret.body.recommendations) :
                   ret.body.recommendations[i].text = MsgCritical(0).text
                       => ret.body.recommendations[i].n = Len(derived)
            /\ Len(derived) > 0 =>
                   \E i \in 1..Len(ret.body.recommendations) :
                       ret.body.recommendations[i] = MsgCritical(Len(derived))

\* None of the four tests of generate_recommendations holds for segs; the
\* lane-marking mean is the float mean the function computes.
NoConditionHolds(segs) ==
    /\ \A i \in 1..Len(segs) : segs[i].risk_level # "CRITICAL"
    /\ ~DblLess(DblDivInt(SumLane(segs, Len(segs)), Len(segs)), DblOfTenths(6))
    /\ Cardinality({i \in 1..Len(segs) :
                       HasFeature(segs[i], "roundabout")}) <= 3
    /\ \A i \in 1..Len(segs) : ~HasFeature(segs[i], "construction_zone")

\* C10: over a non-empty set generate_recommendations never returns an
\* empty list; it returns exactly the default message iff none of the four
\* conditions holds, and the default message never comes with another.
C10_DefaultIffNothingFires ==
    (op = "generate_recommendations" /\ Len(args.segments) > 0) =>
        /\ ret.raised = ""
        /\ Len(ret.value) >= 1
        /\ ret.value = <<MsgDefault>> <=> NoConditionHolds(args.segments)
        /\ \A i \in 1..Len(ret.value) :
               ret.value[i] = MsgDefault => Len(ret.value) = 1

\* The default message is returned for three segments tagged roundabout,
\* one short of the roundabout test.
C10_Witness ==
    /\ op = "generate_recommendations"
    /\ Len(args.segments) = 3
    /\ \A i \in 1..3 : HasFeature(args.segments[i], "roundabout")
    /\ ret.value = <<MsgDefault>>

\* The exact sum of the lane_markings of segs[1..n], in hundredths.
RECURSIVE LaneTotal(_, _)
LaneTotal(segs, n) ==
    IF n = 0 THEN 0
    ELSE LaneTotal(segs, n - 1) + segs[n].infrastructure_quality.lane_markings

\* The messages the four conditions call for, in the fixed order, the lane
\* condition taken on the arithmetic mean: sum / n < 0.6 iff sum < 0.6 n.
MessagesDue(segs) ==
    LET critical_count == CountLevel(segs, "CRITICAL")
        roundabouts == CountFeature(segs, "roundabout")
        construction == CountFeature(segs, "construction_zone")
    IN  (IF critical_count > 0 THEN <<MsgCritical(critical_count)>> ELSE <<>>)
        \o (IF LaneTotal(segs, Len(segs)) < 60 * Len(segs)
            THEN <<MsgLane>> ELSE <<>>)
        \o (IF roundabouts > 3 THEN <<MsgRoundabout(roundabouts)>> ELSE <<>>)
        \o (IF construction > 0 THEN <<MsgConstruction(construction)>>
            ELSE <<>>)

\* C11: each of the four recommendations is emitted iff its own condition
\* holds (critical count > 0, mean lane_markings < 0.6, roundabout
\* segments > 3, construction segments > 0), in the order critical, lane,
\* roundabout, construction, with the counts cited; a mean of exactly 0.6
\* does not emit the lane message.
C11_EachIffOwnCondition ==
    (op = "generate_recommendations" /\ Len(args.segments) > 0) =>
        LET due == MessagesDue(args.segments)
        IN  ret.value = IF due # <<>> THEN due ELSE <<MsgDefault>>

\* C12: sample_segments_evenly on a list no longer than max_samples (the
\* empty list and a list of exactly max_samples elements included) returns
\* the list unchanged.
C12_ShortListUnchanged ==
    (op = "sample_segments_evenly" /\ Len(args.segments) <= args.max_samples)
        => ret = args.segments

\* A list of exactly max_samples elements, at least three, is returned.
C12_Witness ==
    /\ op = "sample_segments_evenly"
    /\ Len(args.segments) = args.max_samples
    /\ Len(args.segments) >= 3
    /\ ret = args.segments

\* C13: sample_segments_evenly on a list longer than max_samples >= 1
\* returns max_samples elements, the i-th (from 0) being the element at
\* index floor(i * len / max_samples); the indices increase strictly and
\* stay below len.
C13_IndexIsFloorOfStride ==
    (op = "sample_segments_evenly" /\ Len(args.segments) > args.max_samples
                                   /\ args.max_samples >= 1) =>
        LET len == Len(args.segments)
            idx(i) == (i * len) \div args.max_samples
        IN  /\ Len(ret) = args.max_samples
            /\ \A i \in 0..(args.max_samples - 1) :
                   /\ idx(i) < len
                   /\ ret[i + 1] = args.segments[idx(i) + 1]
            /\ \A i \in 1..(args.max_samples - 1) : idx(i - 1) < idx(i)

\* The store of the scenario: three segments, at (51.0, 0.0) with the score
\* 80, at (51.5, 0.0) with 40 and at (52.0, 0.0) with 60, each with the
\* risk_level of its score.
ScenarioStore ==
    /\ Len(ROAD_SEGMENTS) = 3
    /\ {<<ROAD_SEGMENTS[i].latitude, ROAD_SEGMENTS[i].longitude,
          ROAD_SEGMENTS[i].readiness_score, ROAD_SEGMENTS[i].risk_level>> :
           i \in 1..3}
       = {<<102, 0, 800, "COMPLIANT">>, <<103, 0, 400, "CRITICAL">>,
          <<104, 0, 600, "MODERATE">>}

\* The assessment of the route from (51.0, 0.0) to (52.0, 0.0).
ScenarioCall ==
    /\ op = "assess_route"
    /\ args.start_lat = 102 /\ args.start_lon = 0
    /\ args.end_lat = 104 /\ args.end_lon = 0

\* C14: on the scenario store the assessment of the route from (51.0, 0.0)
\* to (52.0, 0.0) with the 5 km corridor matches all three segments,
\* reports the mean 60 and MODERATE, and its critical segments are exactly
\* the segment at (51.5, 0.0).
C14_ScenarioOne ==
    (ScenarioStore /\ ScenarioCall) =>
        /\ ret.status = 200
        /\ Matched = ROAD_SEGMENTS
        /\ ret.avg_score = DblFromInt(60)
        /\ ret.body.average_readiness_score = 600
        /\ ret.body.overall_risk_level = "MODERATE"
        /\ ret.body.critical_segments =
               RoadSegments(SelectSeq(ROAD_SEGMENTS,
                                      LAMBDA s : s.latitude = 103))
        /\ Len(ret.body.critical_segments) = 1

\* The scenario has been run, with the display uncut.
C14_Witness ==
    /\ ScenarioStore
    /\ ScenarioCall
    /\ args.max_samples = MAX_SAMPLES
    /\ ret.status = 200
    /\ Len(ret.body.segments) = 3

\* C15: the nearest-point lookup answers 404 iff no segment of the store
\* lies within 0.5 km of the point, the route assessment answers 404 iff no
\* segment of the store lies in the corridor, and each answers 200 in every
\* other case: no other outcome exists.
C15_NotFoundIffNoMatch ==
    /\ op = "get_location_readiness" =>
           /\ ret.status \in {200, 404}
           /\ ret.status = 404 <=>
                  \A i \in StoreIndex : QueryDistance(i) > LOCATION_RADIUS_M
    /\ op = "assess_route" =>
           /\ ret.status \in {200, 404}
           /\ ret.status = 404 <=>
                  \A i \in StoreIndex :
                      ~InCorridor(ROAD_SEGMENTS[i], DEFAULT_CORRIDOR_KM)

\* A route over a store of several segments, none of them in the corridor,
\* is answered with 404.
C15_Witness ==
    /\ op = "assess_route"
    /\ Len(ROAD_SEGMENTS) >= 2
    /\ Len(Matched) = 0
    /\ ret.status = 404

\* C16: assess_route computes the mean, the critical list and the
\* recommendations only when at least one segment matched, an empty match
\* being answered with the not-found exception and no metrics; and
\* generate_recommendations on the empty list raises an exception and
\* returns no list.
C16_NoValueFromEmptySet ==
    /\ op = "assess_route" =>
           /\ ret.status = 200 => Len(Matched) >= 1
           /\ Len(Matched) = 0 =>
                  ret = HTTPException(404, "No road segments found along specified route")
    /\ (op = "generate_recommendations" /\ Len(args.segments) = 0) =>
           /\ ret.raised # ""
           /\ ret.value = <<>>

\* generate_recommendations has been called on the empty list and raised.
C16_Witness ==
    /\ op = "generate_recommendations"
    /\ Len(args.segments) = 0
    /\ ret.raised = "ZeroDivisionError"

\* C17: a store of zero segments fails to load, so no call is ever made
\* on an empty store, and get_statistics never divides by a segment count
\* of zero.
C17_EmptyStoreNeverServed ==
    /\ op # "idle" => Len(ROAD_SEGMENTS) >= 1
    /\ op = "get_statistics" => ret.status = 200

\* The result of the call of frame f when it runs alone on the store.
AloneResult(f) ==
    CASE f.op = "find_nearest_segment" ->
             find_nearest_segment(ROAD_SEGMENTS, f.args.lat, f.args.lon,
                                  f.args.max_distance_km)
      [] f.op = "find_route_segments" ->
             find_route_segments(ROAD_SEGMENTS, f.args.start_lat,
                                 f.args.start_lon, f.args.end_lat,
                                 f.args.end_lon, f.args.corridor_width_km)
      [] f.op = "assess_route" ->
             assess_route(ROAD_SEGMENTS, f.args.start_lat, f.args.start_lon,
                          f.args.end_lat, f.args.end_lon, f.args.max_samples)
      [] f.op = "sample_segments_evenly" ->
             sample_segments_evenly(ROAD_SEGMENTS, f.args.max_samples)
      [] f.op = "generate_recommendations" ->
             generate_recommendations(ROAD_SEGMENTS)
      [] f.op = "get_statistics" -> get_statistics(ROAD_SEGMENTS)

\* C18: no step of any call changes the store, whatever the other caller
\* is doing, and every call that is done holds the result the same call
\* gives when it runs alone on the store.
C18_StoreNeverMutated ==
    /\ [](\A c \in Callers :
              frames[c].done => frames[c].ret = AloneResult(frames[c]))
    /\ [][ROAD_SEGMENTS' = ROAD_SEGMENTS]_vars

\* One caller is done with a nearest lookup that found a segment while the
\* other is in the middle of the corridor loop.
C18_Witness ==
    /\ frames[1].op = "find_nearest_segment"
    /\ frames[1].done
    /\ frames[1].ret # None
    /\ frames[2].op = "find_route_segments"
    /\ ~frames[2].done
    /\ frames[2].i = 2
    /\ Len(ROAD_SEGMENTS) = 2

\* C19: haversine_distance gives the same distance from A to B as from B
\* to A, and the distance 0 from A to A.
C19_SymmetricZeroDiagonal ==
    op = "haversine_distance" =>
        /\ ret = haversine_distance(args.lat2, args.lon2,
                                    args.lat1, args.lon1)
        /\ (args.lat1 = args.lat2 /\ args.lon1 = args.lon2) => ret = 0

\* The distance between two points that differ in latitude and longitude.
C19_Witness ==
    /\ op = "haversine_distance"
    /\ args.lat1 # args.lat2
    /\ args.lon1 # args.lon2
    /\ ret > 0

\* C20: every segment the generator produces has the risk_level of its
\* stored readiness_score: COMPLIANT iff the stored score >= 75, MODERATE
\* iff 50 <= stored score < 75, CRITICAL iff stored score < 50.
C20_StoredLevelMatchesStoredScore ==
    op = "generate_segment_data" =>
        /\ ret.risk_level = "COMPLIANT" <=> ret.readiness_score >= 750
        /\ ret.risk_level = "MODERATE" <=>
               (ret.readiness_score >= 500 /\ ret.readiness_score < 750)
        /\ ret.risk_level = "CRITICAL" <=> ret.readiness_score < 500



\* |PA| and |PB| of the call point_to_line_distance in progress, as the
\* function itself returns them for the one-point segments [A, A], [B, B].
DistanceToStart ==
    point_to_line_distance_binary64(
        FltOfTenths(args.px), FltOfTenths(args.py),
        FltOfTenths(args.x1), FltOfTenths(args.y1),
        FltOfTenths(args.x1), FltOfTenths(args.y1))

DistanceToEnd ==
    point_to_line_distance_binary64(
        FltOfTenths(args.px), FltOfTenths(args.py),
        FltOfTenths(args.x2), FltOfTenths(args.y2),
        FltOfTenths(args.x2), FltOfTenths(args.y2))

\* The projection of P on the line AB, times |AB|^2 (exact, in hundredths
\* of a degree squared), and |AB|^2.
ProjectionOnRoute ==
    (args.px - args.x1) * (args.x2 - args.x1)
        + (args.py - args.y1) * (args.y2 - args.y1)
RouteLength2 ==
    (args.x2 - args.x1) * (args.x2 - args.x1)
        + (args.y2 - args.y1) * (args.y2 - args.y1)

\* C21: point_to_line_distance(P, A, B) is the distance from P to the
\* closest point of the segment [A, B]: it is |PA| when the projection of
\* P falls before A (and when A = B), |PB| when it falls past B, and it
\* never exceeds min(|PA|, |PB|).
C21_ClosestPointOfSegment ==
    op = "point_to_line_distance" =>
        /\ DblGeq(DistanceToStart, ret)
        /\ DblGeq(DistanceToEnd, ret)
        /\ ProjectionOnRoute <= 0 => ret = DistanceToStart
        /\ (RouteLength2 > 0 /\ ProjectionOnRoute >= RouteLength2)
               => ret = DistanceToEnd

\* The segments of the store that the perpendicular-distance filter of the
\* call find_route_segments in progress accepts.
AcceptedByDistance ==
    {i \in 1..Len(ROAD_SEGMENTS) :
        within_corridor_binary64(
            perp_distance_binary64(ROAD_SEGMENTS[i], args.start_lat,
                                   args.start_lon, args.end_lat, args.end_lon),
            args.corridor_width_km)}

\* C22: the bounding-box pre-filter of find_route_segments never rejects a
\* segment that the perpendicular-distance filter would accept, for every
\* segment, start, end and corridor width >= 0.
C22_BoxNeverRejectsAccepted ==
    op = "find_route_segments" =>
        \A i \in AcceptedByDistance :
            in_bounding_box_binary64(ROAD_SEGMENTS[i].latitude,
                                     ROAD_SEGMENTS[i].longitude,
                                     args.start_lat, args.start_lon,
                                     args.end_lat, args.end_lon,
                                     args.corridor_width_km)

\* C23: find_route_segments(start, end, w) and find_route_segments(end,
\* start, w) return the same sequence of segments.
C23_RouteDirectionIrrelevant ==
    op = "find_route_segments" =>
        ret = find_route_segments_binary64(ROAD_SEGMENTS, args.end_lat,
                                           args.end_lon, args.start_lat,
                                           args.start_lon,
                                           args.corridor_width_km)

\* C24: in every route-assessment response the overall_risk_level agrees
\* with the reported average_readiness_score (the mean rounded to one
\* decimal): COMPLIANT iff reported >= 75, MODERATE iff 50 <= reported < 75,
\* CRITICAL iff reported < 50.
C24_LevelMatchesReportedScore ==
    (op = "assess_route" /\ ret.status = 200) =>
        LET level    == ret.body.overall_risk_level
            reported == ret.body.average_readiness_score
        IN  /\ level = "COMPLIANT" <=> reported >= 750
            /\ level = "MODERATE" <=> (reported >= 500 /\ reported < 750)
            /\ level = "CRITICAL" <=> reported < 500

\* The index (from 0) of the k-th sample of the call in progress: the
\* segments of a store are numbered from 1 in the order of the list.
SelectedIndex(k) == ret[k].segment_id - 1

\* C25: when len(segments) > max_samples >= 1, the first selected index is
\* 0 and every two consecutive selected indices differ by
\* floor(len / max_samples) or ceil(len / max_samples).
C25_EvenStride ==
    (op = "sample_segments_evenly" /\ Len(args.segments) > args.max_samples
                                   /\ args.max_samples >= 1) =>
        LET len   == Len(args.segments)
            floor == len \div args.max_samples
            ceil  == (len + args.max_samples - 1) \div args.max_samples
        IN  /\ SelectedIndex(1) = 0
            /\ \A k \in 1..(Len(ret) - 1) :
                   SelectedIndex(k + 1) - SelectedIndex(k) \in {floor, ceil}

\* 22 samples of 30 segments: the stride 30/22 is not an integer, both
\* differences 1 and 2 occur, and sample 11 is at index 14, where the float
\* product 11 * (30 / 22) falls below 15.
C25_Witness ==
    /\ op = "sample_segments_evenly"
    /\ Len(args.segments) = 30
    /\ args.max_samples = 22
    /\ Len(ret) = 22
    /\ SelectedIndex(1) = 0
    /\ SelectedIndex(12) = 14
    /\ \E k \in 1..21 : SelectedIndex(k + 1) - SelectedIndex(k) = 1
    /\ \E k \in 1..21 : SelectedIndex(k + 1) - SelectedIndex(k) = 2

=============================================================================
